---- MODULE Spec2Model ----
(***************************************************************************)
(* Formation Tops Viewer (formation_tops_app.py).                          *)
(*                                                                         *)
(* The program is a Streamlit script: every user interaction runs the      *)
(* whole script top to bottom against st.session_state.wells_data.  One    *)
(* action of this model is one script run: the 'Save Well' form handler,   *)
(* the 'Delete Well' button handler, or a run with no button pressed, each *)
(* followed by the rest of the script down to the interpolation section.   *)
(*                                                                         *)
(* Text typed in the form is a sequence of one-character strings (the      *)
(* formation names are kept as whole words, a word standing for its        *)
(* characters).  Floats are the integers they denote.                      *)
(***************************************************************************)
EXTENDS Integers, Sequences, FiniteSets, TLC

VARIABLES wells_data, prev, run, form_msg, delete_msg, interp

vars == <<wells_data, prev, run, form_msg, delete_msg, interp>>

(***************************************************************************)
(* Bounds and input domains.                                               *)
(***************************************************************************)
\* Largest length of wells_data a run may produce, per specification.
MaxWells == 3
MaxFormWells == 2
MaxInterpWells == 2

\* Default text of 'Formation Names (comma-separated)'.
DefaultFormationNames ==
    <<"Top_Shale", ",", " ", "Sand_A", ",", " ", "Sand_B">>

\* The values the widgets take in the runs of one specification: well_name
\* (st.text_input; "None" is an ordinary name there, and also the first
\* option of the edit selectbox), x_loc and y_loc (st.number_input), the two
\* text areas, and the option picked in 'Select Formation to Interpolate'.
ListInputs ==
    [ cap    |-> MaxWells,
      names  |-> {"A", "None"},
      xs     |-> {0, 1},
      ys     |-> {0},
      ftexts |-> { <<"Top_Shale">> },
      dtexts |-> { <<"5", "0", "0">>, <<"x">> },
      plots  |-> {"Top_Shale"} ]

FormInputs ==
    [ cap    |-> MaxFormWells,
      names  |-> {"A"},
      xs     |-> {0},
      ys     |-> {0},
      ftexts |-> { <<"Top_Shale">>,
                   <<" ", "Top_Shale", " ", ",", "Sand_A">>,
                   <<"Sand_A", ",">>,
                   DefaultFormationNames },
      dtexts |-> { <<"5", "0", "0">>,
                   <<>>,
                   <<" ", "5", "0", "0", ",", "7", "5", "0", " ">>,
                   <<"5", "0", "0", ",", "x">>,
                   <<"5", "0", "0", ",">>,
                   <<"5", " ", "0">> },
      plots  |-> {"Top_Shale"} ]

InterpInputs ==
    [ cap    |-> MaxInterpWells,
      names  |-> {"A"},
      xs     |-> {0, 1},
      ys     |-> {0, 2},
      ftexts |-> { <<"Top_Shale", ",", "Top_Shale">>,
                   <<"Top_Shale", ",", "Sand_A">> },
      dtexts |-> { <<"5", "0", "0", ",", "7", "5", "0">> },
      plots  |-> {"Top_Shale"} ]

(***************************************************************************)
(* Python string operations on texts.                                      *)
(***************************************************************************)
Whitespace == {" "}

Digits == {"0", "5", "7", "8", "9"}

DigitVal == ("0" :> 0) @@ ("5" :> 5) @@ ("7" :> 7) @@ ("8" :> 8) @@ ("9" :> 9)

\* str.split(","): always at least one token, empty tokens kept.  done holds
\* the finished tokens, cur the characters of the token being read.
RECURSIVE SplitFrom(_, _, _)
SplitFrom(s, done, cur) ==
    IF s = <<>> THEN Append(done, cur)
    ELSE IF Head(s) = ","
         THEN SplitFrom(Tail(s), Append(done, cur), <<>>)
         ELSE SplitFrom(Tail(s), done, Append(cur, Head(s)))

Split(s) == SplitFrom(s, <<>>, <<>>)

RECURSIVE LStrip(_)
LStrip(s) ==
    IF s # <<>> /\ Head(s) \in Whitespace THEN LStrip(Tail(s)) ELSE s

RECURSIVE RStrip(_)
RStrip(s) ==
    IF s # <<>> /\ s[Len(s)] \in Whitespace
    THEN RStrip(SubSeq(s, 1, Len(s) - 1))
    ELSE s

\* str.strip()
Strip(s) == RStrip(LStrip(s))

\* The Python string a sequence of characters stands for.
RECURSIVE Str(_)
Str(s) == IF s = <<>> THEN "" ELSE Head(s) \o Str(Tail(s))

\* FloatRaises without the empty-string case.
FloatRaisesNonDigit(t) == \E i \in 1..Len(t) : t[i] \notin Digits

\* float(t) raises ValueError: over the characters of DepthTexts, float
\* accepts exactly the non-empty digit strings (surrounding whitespace is
\* already stripped, inner whitespace is an error).
FloatRaises(t) == t = <<>> \/ \E i \in 1..Len(t) : t[i] \notin Digits

RECURSIVE Float(_)
Float(t) ==
    IF t = <<>> THEN 0
    ELSE 10 * Float(SubSeq(t, 1, Len(t) - 1)) + DigitVal[t[Len(t)]]

(***************************************************************************)
(* The 'Save Well' form handler.                                           *)
(***************************************************************************)
ErrCount == "Formation names and depths count must match!"
ErrValue == "Depths must be valid numbers."
MsgUpdated == "updated"
MsgAdded == "added"
NoMsg == "none"

\* formations = [f.strip() for f in formation_names.split(",")]
Formations(formation_names) ==
    LET toks == Split(formation_names)
    IN  [i \in 1..Len(toks) |-> Str(Strip(toks[i]))]

\* The stripped tokens of formation_depths, before float().
DepthTokens(formation_depths) ==
    LET toks == Split(formation_depths)
    IN  [i \in 1..Len(toks) |-> Strip(toks[i])]

\* depths = [float(d.strip()) for d in formation_depths.split(",")] raises.
DepthsRaise(formation_depths) ==
    LET toks == DepthTokens(formation_depths)
    IN  \E i \in 1..Len(toks) : FloatRaises(toks[i])

Depths(formation_depths) ==
    LET toks == DepthTokens(formation_depths)
    IN  [i \in 1..Len(toks) |-> Float(toks[i])]

\* CountMismatch with the check left out.
CountMismatchNever(formations, depths) == FALSE

\* CountMismatch that only notices surplus formation names.
CountMismatchSurplus(formations, depths) == Len(formations) > Len(depths)

\* len(formations) != len(depths)
CountMismatch(formations, depths) == Len(formations) # Len(depths)

NewEntry(well_name, x_loc, y_loc, formations, depths) ==
    [ well_name  |-> well_name,
      x          |-> x_loc,
      y          |-> y_loc,
      formations |-> formations,
      depths     |-> depths ]

\* options of the 'Edit Existing Well (optional)' selectbox
EditOptions(wells) ==
    <<"None">> \o [i \in 1..Len(wells) |-> wells[i].well_name]

\* for i, w in enumerate(wells_data): if w["well_name"] == edit_index:
\*     wells_data[i] = new_entry; st.success(...); break
UpdateExisting(wells, edit_index, new_entry) ==
    LET hits == {i \in 1..Len(wells) : wells[i].well_name = edit_index}
    IN  IF hits = {}
        THEN [wells |-> wells, msg |-> NoMsg]
        ELSE LET i == CHOOSE h \in hits : \A g \in hits : h <= g
             IN  [wells |-> [wells EXCEPT ![i] = new_entry], msg |-> MsgUpdated]

\* The body of 'if submitted:': the new wells_data and the message shown.
Submit(wells, well_name, x_loc, y_loc, formation_names, formation_depths, edit_index) ==
    IF DepthsRaise(formation_depths)
    THEN [wells |-> wells, msg |-> ErrValue]
    ELSE LET formations == Formations(formation_names)
             depths     == Depths(formation_depths)
             new_entry  == NewEntry(well_name, x_loc, y_loc, formations, depths)
         IN  IF CountMismatch(formations, depths)
             THEN [wells |-> wells, msg |-> ErrCount]
             ELSE IF edit_index # "None"
                  THEN UpdateExisting(wells, edit_index, new_entry)
                  ELSE [wells |-> Append(wells, new_entry), msg |-> MsgAdded]

(***************************************************************************)
(* The 'Delete Well' handler.                                              *)
(***************************************************************************)
\* DeleteFilter that removes the first matching record only.
DeleteFirst(wells, delete_well) ==
    LET hits == {i \in 1..Len(wells) : wells[i].well_name = delete_well}
    IN  IF hits = {} THEN wells
        ELSE LET i == CHOOSE h \in hits : \A g \in hits : h <= g
             IN  SubSeq(wells, 1, i - 1) \o SubSeq(wells, i + 1, Len(wells))

\* DeleteFilter that clears the list.
DeleteEverything(wells, delete_well) == <<>>

\* [w for w in wells_data if w["well_name"] != delete_well]
DeleteFilter(wells, delete_well) ==
    SelectSeq(wells, LAMBDA w : w.well_name # delete_well)

(***************************************************************************)
(* The 3D map table and the interpolation section.                         *)
(***************************************************************************)
FormationKeys == <<"Top_Shale", "Sand_A", "Sand_B", "Limestone", "Dolomite">>

Min2(a, b) == IF a <= b THEN a ELSE b

\* The rows one well contributes: zip(well["formations"], well["depths"]).
WellRows(well) ==
    [ i \in 1..Min2(Len(well.formations), Len(well.depths)) |->
        [ well      |-> well.well_name,
          formation |-> well.formations[i],
          x         |-> well.x,
          y         |-> well.y,
          depth     |-> well.depths[i] ] ]

RECURSIVE MapData(_)
MapData(wells) ==
    IF wells = <<>> THEN <<>>
    ELSE WellRows(Head(wells)) \o MapData(Tail(wells))

\* df_map[df_map["formation"] == formation_to_plot]
InterpData(df_map, formation_to_plot) ==
    SelectSeq(df_map, LAMBDA r : r.formation = formation_to_plot)

\* EnoughPoints with a strict comparison.
MoreThanThreePoints(interp_data) == Len(interp_data) > 3

\* len(interp_data) >= 3
EnoughPoints(interp_data) == Len(interp_data) >= 3

ColMin(rows, col) ==
    CHOOSE v \in {rows[i][col] : i \in 1..Len(rows)} :
        \A i \in 1..Len(rows) : v <= rows[i][col]

ColMax(rows, col) ==
    CHOOSE v \in {rows[i][col] : i \in 1..Len(rows)} :
        \A i \in 1..Len(rows) : v >= rows[i][col]

\* Number of samples per axis of the interpolation grid.
Resolution == 100

\* np.linspace(start, stop, num): sample i is start + (i-1)*(stop-start)/(num-1);
\* the samples are kept as their numerators over num-1.
Linspace(start, stop, num) ==
    [i \in 1..num |-> start * (num - 1) + (i - 1) * (stop - start)]

\* np.meshgrid(xs, ys): two arrays of shape (len(ys), len(xs)); the model
\* keeps the shape and the first and last sample of each axis.
Meshgrid(xs, ys) ==
    [ shape  |-> <<Len(ys), Len(xs)>>,
      x_span |-> <<xs[1], xs[Len(xs)]>>,
      y_span |-> <<ys[1], ys[Len(ys)]>> ]

NoGrid == [shape |-> <<0, 0>>, x_span |-> <<0, 0>>, y_span |-> <<0, 0>>]

\* grid_x, grid_y = np.meshgrid(np.linspace(...), np.linspace(...))
Grid(interp_data) ==
    Meshgrid(Linspace(ColMin(interp_data, "x"), ColMax(interp_data, "x"),
                      Resolution),
             Linspace(ColMin(interp_data, "y"), ColMax(interp_data, "y"),
                      Resolution))

\* if len(interp_data) >= 3: ... st.pyplot(fig)  else: st.warning(...)
Surface(interp_data, formation_to_plot) ==
    IF EnoughPoints(interp_data)
    THEN [formation |-> formation_to_plot, outcome |-> "surface",
          points |-> Len(interp_data), grid |-> Grid(interp_data)]
    ELSE [formation |-> formation_to_plot, outcome |-> "warning",
          points |-> Len(interp_data), grid |-> NoGrid]

\* Lines 102-156: how the run ends.  pd.DataFrame([]) has no columns, so
\* df_map["formation"] raises KeyError when map_data is empty.
Filtered(df_map, formation_to_plot) ==
    IF df_map = <<>>
    THEN [formation |-> formation_to_plot, outcome |-> "KeyError",
          points |-> 0, grid |-> NoGrid]
    ELSE Surface(InterpData(df_map, formation_to_plot), formation_to_plot)

Interpolation(wells, formation_to_plot) ==
    Filtered(MapData(wells), formation_to_plot)

(***************************************************************************)
(* Script runs.                                                            *)
(***************************************************************************)
NoRun ==
    [ op |-> "load", well_name |-> "", x_loc |-> 0, y_loc |-> 0,
      formation_names |-> <<>>,
      formation_depths |-> <<>>, edit_sel |-> 1, edit_index |-> "None",
      delete_well |-> "" ]

\* First run of a session: wells_data is created empty, no button is pressed.
Init ==
    /\ wells_data = <<>>
    /\ prev = <<>>
    /\ run = NoRun
    /\ form_msg = NoMsg
    /\ delete_msg = NoMsg
    /\ interp = Interpolation(<<>>, FormationKeys[1])

\* A run with 'Save Well' pressed.
SaveWell(In) ==
    \E well_name \in In.names, x_loc \in In.xs, y_loc \in In.ys,
       formation_names \in In.ftexts, formation_depths \in In.dtexts,
       edit_sel \in 1..(Len(wells_data) + 1), formation_to_plot \in In.plots :
        LET edit_index == EditOptions(wells_data)[edit_sel]
            r == Submit(wells_data, well_name, x_loc, y_loc, formation_names,
                        formation_depths, edit_index)
        IN  /\ Len(r.wells) <= In.cap
            /\ wells_data' = r.wells
            /\ prev' = wells_data
            /\ run' = [ op |-> "save", well_name |-> well_name,
                        x_loc |-> x_loc, y_loc |-> y_loc,
                        formation_names |-> formation_names,
                        formation_depths |-> formation_depths,
                        edit_sel |-> edit_sel, edit_index |-> edit_index,
                        delete_well |-> "" ]
            /\ form_msg' = r.msg
            /\ delete_msg' = NoMsg
            /\ interp' = Interpolation(r.wells, formation_to_plot)

\* A run with 'Delete Well' pressed.
DeleteWell(In) ==
    /\ wells_data # <<>>
    /\ \E delete_sel \in 1..Len(wells_data), formation_to_plot \in In.plots :
        LET delete_well == wells_data[delete_sel].well_name
            kept == DeleteFilter(wells_data, delete_well)
        IN  /\ wells_data' = kept
            /\ prev' = wells_data
            /\ run' = [NoRun EXCEPT !.op = "delete", !.delete_well = delete_well]
            /\ form_msg' = NoMsg
            /\ delete_msg' = "deleted"
            /\ interp' = Interpolation(kept, formation_to_plot)

\* A run with no button pressed.
Rerun(In) ==
    \E formation_to_plot \in In.plots :
        /\ prev' = wells_data
        /\ run' = [NoRun EXCEPT !.op = "rerun"]
        /\ form_msg' = NoMsg
        /\ delete_msg' = NoMsg
        /\ interp' = Interpolation(wells_data, formation_to_plot)
        /\ UNCHANGED wells_data

Next == SaveWell(ListInputs) \/ DeleteWell(ListInputs) \/ Rerun(ListInputs)

Spec == Init /\ [][Next]_vars

NextForm == SaveWell(FormInputs) \/ DeleteWell(FormInputs) \/ Rerun(FormInputs)

SpecForm == Init /\ [][NextForm]_vars

NextInterp ==
    SaveWell(InterpInputs) \/ DeleteWell(InterpInputs) \/ Rerun(InterpInputs)

SpecInterp == Init /\ [][NextInterp]_vars

(***************************************************************************)
(* Properties.                                                             *)
(***************************************************************************)
Errors == {ErrCount, ErrValue}

Saved == run.op = "save"

\* The run was a submission with an existing well picked in the edit selectbox.
EditMode == Saved /\ run.edit_sel > 1

\* Number of comma-separated tokens of a text: one more than its commas.
TokenCount(text) == Cardinality({i \in 1..Len(text) : text[i] = ","}) + 1

\* [a, b] (empty when b = a - 1) is a maximal comma-free stretch of text.
IsToken(text, a, b) ==
    /\ a \in 1..(Len(text) + 1)
    /\ b \in (a - 1)..Len(text)
    /\ \A k \in a..b : text[k] # ","
    /\ (a = 1 \/ text[a - 1] = ",")
    /\ (b = Len(text) \/ text[b + 1] = ",")

\* The stretch reads as a number: digits, possibly between blanks.
IsNumber(text, a, b) ==
    \E p \in a..b : \E q \in p..b :
        /\ \A k \in p..q : text[k] \in {"0", "5", "7", "8", "9"}
        /\ \A k \in (a..(p - 1)) \cup ((q + 1)..b) : text[k] = " "

HasBadDepthToken(text) ==
    \E a \in 1..(Len(text) + 1) : \E b \in (a - 1)..Len(text) :
        IsToken(text, a, b) /\ ~IsNumber(text, a, b)

\* C1: a 'Save Well' submission, in add or in edit mode, whose formation
\* name list and depth list have different numbers of comma-separated
\* tokens ends in an error message and leaves wells_data exactly as it was.
C1_UnequalCountsRejected ==
    (Saved /\ TokenCount(run.formation_names) # TokenCount(run.formation_depths))
        => (form_msg \in Errors /\ wells_data = prev)

C1_Witness ==
    /\ EditMode
    /\ TokenCount(run.formation_names) # TokenCount(run.formation_depths)
    /\ ~HasBadDepthToken(run.formation_depths)
    /\ form_msg = ErrCount
    /\ prev # <<>>

\* C2: a 'Save Well' submission with a depth token that is not a number
\* (an empty token included) ends in 'Depths must be valid numbers.' and
\* leaves wells_data unchanged, whether or not the counts match, in add and
\* in edit mode.
C2_BadDepthRejected ==
    (Saved /\ HasBadDepthToken(run.formation_depths))
        => (form_msg = ErrValue /\ wells_data = prev)

C2_Witness ==
    /\ EditMode
    /\ run.formation_depths = <<"5", "0", "0", ",">>
    /\ TokenCount(run.formation_names) = TokenCount(run.formation_depths)
    /\ form_msg = ErrValue
    /\ wells_data = prev
    /\ prev # <<>>

NameCount(wells, name) ==
    Cardinality({i \in 1..Len(wells) : wells[i].well_name = name})

\* C3: after the delete action with name N selected, no record of
\* wells_data is named N.
C3_DeletedNameGone ==
    run.op = "delete" => NameCount(wells_data, run.delete_well) = 0

C3_Witness ==
    /\ run.op = "delete"
    /\ NameCount(prev, run.delete_well) >= 2
    /\ wells_data # <<>>

\* C4: a valid submission in edit mode writes the new entry at the index
\* the entry named E held and leaves the length of wells_data unchanged.
C4_EditInPlace ==
    (EditMode /\ form_msg \notin Errors) =>
        /\ Len(wells_data) = Len(prev)
        /\ \E i \in 1..Len(prev) :
            /\ prev[i].well_name = run.edit_index
            /\ i <= Len(wells_data)
            /\ wells_data[i].well_name = run.well_name
            /\ wells_data[i].x = run.x_loc
            /\ wells_data[i].y = run.y_loc

\* Number of (well, formation entry) points of the selected formation.
PointIndices ==
    {ij \in UNION { {<<i, j>> : j \in 1..Len(wells_data[i].formations)} :
                    i \in 1..Len(wells_data) } :
        wells_data[ij[1]].formations[ij[2]] = interp.formation}

PointWells == {ij[1] : ij \in PointIndices}

\* C5: with fewer than 3 points of the selected formation the run ends in
\* the 'Need at least 3 points' warning, in every state, the initial one
\* included: no exception and no grid.
C5_FewPointsWarn ==
    Cardinality(PointIndices) < 3 => interp.outcome = "warning"

LeastOf(S) == CHOOSE v \in S : \A u \in S : v <= u
GreatestOf(S) == CHOOSE v \in S : \A u \in S : v >= u

\* C6: with 3 or more points of the selected formation (each entry of each
\* record counts) no warning is shown and the grid has 100 by 100 cells
\* running from the least to the greatest x and y of those points.  Grid
\* coordinates are in units of 1/99.
C6_GridProduced ==
    Cardinality(PointIndices) >= 3 =>
        /\ interp.outcome = "surface"
        /\ interp.grid.shape = <<100, 100>>
        /\ interp.grid.x_span =
             << 99 * LeastOf({wells_data[i].x : i \in PointWells}),
                99 * GreatestOf({wells_data[i].x : i \in PointWells}) >>
        /\ interp.grid.y_span =
             << 99 * LeastOf({wells_data[i].y : i \in PointWells}),
                99 * GreatestOf({wells_data[i].y : i \in PointWells}) >>

C6_Witness ==
    /\ Cardinality(PointIndices) = 3
    /\ Cardinality(PointWells) = 2
    /\ interp.outcome = "surface"
    /\ interp.grid.x_span[1] < interp.grid.x_span[2]
    /\ interp.grid.y_span[1] < interp.grid.y_span[2]

\* C7: no two records of wells_data have the same well_name.
C7_UniqueNames ==
    \A i, j \in 1..Len(wells_data) :
        wells_data[i].well_name = wells_data[j].well_name => i = j

\* C8: every record of wells_data has as many formations as depths.
C8_EqualLengths ==
    \A i \in 1..Len(wells_data) :
        Len(wells_data[i].formations) = Len(wells_data[i].depths)

C8_Witness ==
    /\ Len(wells_data) = 2
    /\ Len(wells_data[1].formations) # Len(wells_data[2].formations)
    /\ Saved
    /\ form_msg = ErrCount

\* Indices of prev whose record is not named as the deleted well.
KeptIndices == {i \in 1..Len(prev) : prev[i].well_name # run.delete_well}

NthKept(k) ==
    CHOOSE i \in KeptIndices : Cardinality({j \in KeptIndices : j <= i}) = k

\* C9: the delete action with N selected leaves exactly the prior records
\* not named N, unchanged and in their prior order; the length drops by the
\* number of records named N.
C9_DeleteKeepsOthers ==
    run.op = "delete" =>
        /\ Len(wells_data) = Len(prev) - NameCount(prev, run.delete_well)
        /\ \A k \in 1..Len(wells_data) : wells_data[k] = prev[NthKept(k)]

C9_Witness ==
    /\ run.op = "delete"
    /\ Len(prev) = 3
    /\ Len(wells_data) = 2
    /\ wells_data[1] # wells_data[2]

\* C10: a valid edit submission with E selected replaces only the first
\* record named E, by a record named as the 'Well Name' field, and leaves
\* every other record unchanged.
C10_EditReplacesFirstOnly ==
    (EditMode /\ form_msg \notin Errors) =>
        \E i \in 1..Len(prev) :
            /\ prev[i].well_name = run.edit_index
            /\ \A j \in 1..(i - 1) : prev[j].well_name # run.edit_index
            /\ Len(wells_data) = Len(prev)
            /\ wells_data[i].well_name = run.well_name
            /\ \A j \in 1..Len(prev) : j # i => wells_data[j] = prev[j]

====
